---- MODULE Spec2Model ----
(***************************************************************************)
(* Model of scripts/harvest.py: the glossary harvester.  One run of main() *)
(* loads words.json, walks the configured categories page by page, fetches *)
(* a summary per listing title, appends the accepted entries and saves.    *)
(*                                                                         *)
(* Strings that the program inspects character by character (titles, the   *)
(* summary extract) are sequences: a title is a sequence of one-character  *)
(* strings, an extract is a sequence of tokens where a token is either a   *)
(* character or one of the denylisted keywords.                            *)
(***************************************************************************)
EXTENDS Integers, Sequences, FiniteSets, TLC

VARIABLES upstream, file, pc, runs,
          categories, LIMIT_PER_RUN, LANG,
          words, have, next_id, added,
          ci, cont, titles, ti,
          pageNo, file0, accepted, log

vars == <<upstream, file, pc, runs, categories, LIMIT_PER_RUN, LANG,
          words, have, next_id, added, ci, cont, titles, ti,
          pageNo, file0, accepted, log>>

\* ---------------------------------------------------------------- bounds
MaxRuns == 3
MaxLimit == 3

\* ------------------------------------------------------------- slugify
\* str.lower() on the characters of the model's alphabet.
Lower(c) ==
    CASE c = "A" -> "a"
      [] c = "B" -> "b"
      [] c = "C" -> "c"
      [] c = "D" -> "d"
      [] c = "X" -> "x"
      [] OTHER -> c

\* The character class [a-z0-9(kanji)(hiragana)(katakana)] of the regex,
\* restricted to the model's alphabet ("K" stands for a kanji character).
Whitelisted(c) == c \in {"a", "b", "c", "d", "e", "f", "g", "h", "x", "0", "1", "K"}

RECURSIVE Collapse(_, _)
\* re.sub(r"[^...]+", "-", s): every maximal run of characters outside the
\* class becomes one "-".  inRun: the previous character was outside.
Collapse(s, inRun) ==
    IF s = <<>> THEN <<>>
    ELSE IF Whitelisted(Head(s)) THEN <<Head(s)>> \o Collapse(Tail(s), FALSE)
    ELSE IF inRun THEN Collapse(Tail(s), TRUE)
    ELSE <<"-">> \o Collapse(Tail(s), TRUE)

slugify(s) == Collapse([i \in 1..Len(s) |-> Lower(s[i])], FALSE)

\* ------------------------------------------------------- persisted file
NoFile == [exists |-> FALSE, content |-> <<>>]

\* load_words(): the parsed list, or [] when words.json does not exist.
load_words(f) == IF f.exists THEN f.content ELSE <<>>

\* save_words(words): words.json rewritten in full.
save_words(ws) == [exists |-> TRUE, content |-> ws]

\* ------------------------------------------------------- fetch_summary
bad_words == {"symphony", "instrument", "compose", "novel", "manga",
              "film", "cargo", "shipping", "vessel"}

IsSpace(c) == c \in {" ", "\n"}

RECURSIVE LStrip(_)
LStrip(s) == IF s # <<>> /\ IsSpace(Head(s)) THEN LStrip(Tail(s)) ELSE s

RECURSIVE RStrip(_)
RStrip(s) ==
    IF s # <<>> /\ IsSpace(s[Len(s)]) THEN RStrip(SubSeq(s, 1, Len(s) - 1)) ELSE s

\* str.strip()
Strip(s) == RStrip(LStrip(s))

\* any(w in extract for w in bad_words)
HasBadWord(extract) == \E i \in 1..Len(extract) : extract[i] \in bad_words

NoSummary == [ok |-> FALSE, slept |-> FALSE]

\* fetch_summary(title, lang) on the response r of the summary endpoint:
\* None for a non-200 status, a disambiguation page, an empty extract or a
\* denylisted extract; otherwise the entry (without its id), after a sleep.
\* r.title = <<>> and r.page_url = "" model absent fields.
fetch_summary(title, lang, r) ==
    IF r.status # 200 THEN NoSummary
    ELSE IF r.type = "disambiguation" THEN NoSummary
    ELSE IF Strip(r.extract) = <<>> THEN NoSummary
    ELSE IF HasBadWord(Strip(r.extract)) THEN NoSummary
    ELSE [ok |-> TRUE, slept |-> TRUE,
          term |-> IF r.title # <<>> THEN r.title ELSE title,
          definition_ja |-> IF lang = "ja" THEN Strip(r.extract) ELSE <<>>,
          definition_en |-> IF lang = "en" THEN Strip(r.extract) ELSE <<>>,
          difficulty |-> 1,
          source_urls |-> IF r.page_url # "" THEN <<r.page_url>> ELSE <<>>,
          lang |-> lang]

\* s["id"] = next_id: the record appended to words.
WithId(s, id) ==
    [id |-> id, term |-> s.term, definition_ja |-> s.definition_ja,
     definition_en |-> s.definition_en, difficulty |-> s.difficulty,
     source_urls |-> s.source_urls, lang |-> s.lang]

\* ------------------------------------------------------------ upstream
Resp(status, type, title, extract, url) ==
    [status |-> status, type |-> type, title |-> title,
     extract |-> extract, page_url |-> url]

tA == <<"A">>
ta == <<"a">>
tB == <<"B">>
tC == <<"C">>
tD == <<"D">>
tE == <<"e">>
tF == <<"f">>
tG == <<"g">>
tH == <<"h", " ", "1">>
tH2 == <<"H", "_", "-", "1">>

Titles == {tA, ta, tB, tC, tD, tE, tF, tG, tH, tH2}

Good == <<" ", "x", " ", "y", "\n">>

\* Summary endpoint: "B" is a disambiguation page, "D" is a redirect whose
\* summary carries the title "A", "e" is missing, "f" has a blank extract,
\* "g" an off-domain extract, "h 1" no title and no canonical URL.
SummaryOf(t) ==
    CASE t = tA -> Resp(200, "standard", tA, Good, "u/A")
      [] t = ta -> Resp(200, "standard", ta, Good, "u/a")
      [] t = tB -> Resp(200, "disambiguation", tB, Good, "u/B")
      [] t = tC -> Resp(200, "standard", tC, <<"x">>, "u/C")
      [] t = tD -> Resp(200, "standard", tA, Good, "u/A")
      [] t = tE -> Resp(404, "", <<>>, <<>>, "")
      [] t = tF -> Resp(200, "standard", tF, <<" ", "\n">>, "u/f")
      [] t = tG -> Resp(200, "standard", tG, <<"x", "film", "y">>, "u/g")
      [] t = tH -> Resp(200, "standard", <<>>, Good, "")
      [] OTHER -> Resp(200, "standard", t, Good, "u/o")

M(t, ns) == [title |-> t, ns |-> ns]

\* Category listings: per category, the sequence of pages the endpoint
\* returns; the continuation token of page i is i + 1.
ListingA ==
    [c \in {"c1", "c2", "c3"} |->
        CASE c = "c1" -> << <<M(tA, 0), M(tB, 0), M(tC, 0)>> >>
          [] c = "c2" -> << <<M(ta, 0), M(tC, 14), M(tE, 0)>>, <<M(tD, 0)>> >>
          [] OTHER    -> << <<M(tF, 0), M(tG, 0)>>, <<>>, <<M(tH, 0), M(tH2, 0)>> >>]

ListingB ==
    [c \in {"c1", "c2", "c3"} |->
        CASE c = "c1" -> << <<M(tD, 0)>>, <<M(tC, 0)>> >>
          [] c = "c2" -> << <<M(tH2, 0), M(tH, 0), M(tB, 1)>> >>
          [] OTHER    -> << <<>> >>]

Upstreams == {ListingA, ListingB}

CategoryLists == {<<>>, <<"c1">>, <<"c2">>, <<"c3">>, <<"c1", "c2">>, <<"c3", "c1">>}

Langs == {"ja", "en"}

\* ------------------------------------------------------------ the run
NoCont == 0

Req(kind, host) == [ev |-> "request", kind |-> kind, host |-> host]
Sleep == [ev |-> "sleep", kind |-> "", host |-> ""]

Running == pc \in {"list", "titles"}

\* History: file0 is words.json as the run found it, accepted the titles
\* accepted in the run with their place in the listing, log the outbound
\* requests, sleeps and saves of the run in order.
Loaded == load_words(file0)

Init ==
    /\ upstream \in Upstreams
    /\ file = NoFile
    /\ pc = "idle"
    /\ runs = 0
    /\ categories = <<>>
    /\ LIMIT_PER_RUN = 0
    /\ LANG = "ja"
    /\ words = <<>>
    /\ have = {}
    /\ next_id = 1
    /\ added = 0
    /\ ci = 1
    /\ cont = NoCont
    /\ titles = <<>>
    /\ ti = 1
    /\ pageNo = 1
    /\ file0 = NoFile
    /\ accepted = <<>>
    /\ log = <<>>

\* ------------------------------------------------------------- main()
\* max([w.get("id", 0) for w in words])
MaxId(ws) == CHOOSE m \in {ws[i].id : i \in 1..Len(ws)} :
                 \A i \in 1..Len(ws) : ws[i].id <= m

\* Mutant of NextIdOf: the maximum itself, without the + 1.
NextIdOf_NoIncrement(ws) == IF ws # <<>> THEN MaxId(ws) ELSE 1

\* next_id = (max(...) + 1) if words else 1
NextIdOf(ws) == IF ws # <<>> THEN MaxId(ws) + 1 ELSE 1

\* have = {slugify(w["term"]): True for w in words}
HaveOf(ws) == {slugify(ws[i].term) : i \in 1..Len(ws)}

\* Mutant of LimitReached: > in place of >=.
LimitReached_OffByOne == added > LIMIT_PER_RUN

\* if added >= LIMIT_PER_RUN
LimitReached == added >= LIMIT_PER_RUN

\* Mutant of AppendEntry: words.insert(0, s).
AppendEntry_Prepend(ws, e) == <<e>> \o ws

\* words.append(s)
AppendEntry(ws, e) == Append(ws, e)

\* titles = [m["title"] for m in data["query"]["categorymembers"] if m.get("ns") == 0]
TitlesOf(members) ==
    LET kept == SelectSeq(members, LAMBDA m : m.ns = 0)
    IN  [i \in 1..Len(kept) |-> kept[i].title]

\* The page the listing endpoint returns for (category, cmcontinue).
PageIndex(token) == IF token = NoCont THEN 1 ELSE token
PageOf(cat, token) == upstream[cat][PageIndex(token)]
\* data.get("continue", {}).get("cmcontinue")
NextToken(cat, token) ==
    IF PageIndex(token) < Len(upstream[cat]) THEN PageIndex(token) + 1 ELSE NoCont

\* The host fetch_category_members sends its request to.
ListingHost == "ja"
\* The host fetch_summary sends its request to.
SummaryHost(lang) == lang

Title == titles[ti]

runVars == <<categories, LIMIT_PER_RUN, LANG, file0>>
loopVars == <<ci, cont, titles, ti, pageNo>>
memVars == <<words, have, next_id, added, accepted>>

\* main() with CATEGORIES empty: message and sys.exit(0) before any load
\* (the locals of main() do not exist yet: they keep their initial values).
StartRunNoCategories ==
    /\ ~Running
    /\ runs < MaxRuns
    /\ \E k \in 0..MaxLimit, l \in Langs :
          /\ LIMIT_PER_RUN' = k
          /\ LANG' = l
    /\ categories' = <<>>
    /\ runs' = runs + 1
    /\ pc' = "exited"
    /\ words' = <<>>
    /\ have' = {}
    /\ next_id' = 1
    /\ added' = 0
    /\ log' = <<>>
    /\ file0' = file
    /\ accepted' = <<>>
    /\ UNCHANGED <<upstream, file, loopVars>>

\* main() up to the first iteration of the category loop.
StartRun ==
    /\ ~Running
    /\ runs < MaxRuns
    /\ \E cs \in CategoryLists \ {<<>>}, k \in 0..MaxLimit, l \in Langs :
          /\ categories' = cs
          /\ LIMIT_PER_RUN' = k
          /\ LANG' = l
    /\ runs' = runs + 1
    /\ words' = load_words(file)
    /\ have' = HaveOf(load_words(file))
    /\ next_id' = NextIdOf(load_words(file))
    /\ added' = 0
    /\ ci' = 1
    /\ cont' = NoCont
    /\ titles' = <<>>
    /\ ti' = 1
    /\ pageNo' = 1
    /\ pc' = "list"
    /\ file0' = file
    /\ accepted' = <<>>
    /\ log' = <<>>
    /\ UNCHANGED <<upstream, file>>

\* fetch_category_members(cat, cont) answered: the ns-0 titles of the page,
\* the next token, then the sleep.
FetchCategoryMembers ==
    /\ pc = "list"
    /\ titles' = TitlesOf(PageOf(categories[ci], cont))
    /\ cont' = NextToken(categories[ci], cont)
    /\ pageNo' = PageIndex(cont)
    /\ ti' = 1
    /\ log' = log \o <<Req("list", ListingHost), Sleep>>
    /\ pc' = "titles"
    /\ UNCHANGED <<upstream, file, runs, runVars, memVars, ci>>

\* Mutant of FetchCategoryMembersFails: the failure is caught and the
\* words in memory are saved before the run ends.
FetchCategoryMembersFails_Saves ==
    /\ pc = "list"
    /\ log' = log \o <<Req("list", ListingHost)>>
    /\ file' = save_words(words)
    /\ pc' = "aborted"
    /\ UNCHANGED <<upstream, runs, runVars, memVars, loopVars>>

\* fetch_category_members raises (retries exhausted, raise_for_status):
\* the exception leaves main() and ends the process.
FetchCategoryMembersFails ==
    /\ pc = "list"
    /\ log' = log \o <<Req("list", ListingHost)>>
    /\ pc' = "aborted"
    /\ UNCHANGED <<upstream, file, runs, runVars, memVars, loopVars>>

\* Mutant of LimitSave: break out of the title loop in place of return.
LimitSave_Break ==
    /\ pc = "titles"
    /\ ti <= Len(titles)
    /\ LimitReached
    /\ file' = save_words(words)
    /\ log' = Append(log, [ev |-> "save", kind |-> "limit", host |-> ""])
    /\ ti' = Len(titles) + 1
    /\ UNCHANGED <<upstream, pc, runs, runVars, memVars, ci, cont, titles, pageNo>>

\* Top of the title loop with the limit reached: save and return.
LimitSave ==
    /\ pc = "titles"
    /\ ti <= Len(titles)
    /\ LimitReached
    /\ file' = save_words(words)
    /\ log' = Append(log, [ev |-> "save", kind |-> "limit", host |-> ""])
    /\ pc' = "done"
    /\ UNCHANGED <<upstream, runs, runVars, memVars, loopVars>>

\* if sg in have: continue
SkipDuplicate ==
    /\ pc = "titles"
    /\ ti <= Len(titles)
    /\ ~LimitReached
    /\ slugify(Title) \in have
    /\ ti' = ti + 1
    /\ UNCHANGED <<upstream, file, pc, runs, runVars, memVars, ci, cont, titles, pageNo, log>>

\* Mutant of SummaryRejected: the id is taken before the summary is looked
\* at, so a rejected title consumes it.
SummaryRejected_ConsumesId ==
    /\ pc = "titles"
    /\ ti <= Len(titles)
    /\ ~LimitReached
    /\ slugify(Title) \notin have
    /\ ~fetch_summary(Title, LANG, SummaryOf(Title)).ok
    /\ log' = log \o <<Req("summary", SummaryHost(LANG))>>
    /\ next_id' = next_id + 1
    /\ ti' = ti + 1
    /\ UNCHANGED <<upstream, file, pc, runs, runVars, words, have, added,
                   accepted, ci, cont, titles, pageNo>>

\* fetch_summary returns None: continue (no sleep was made).
SummaryRejected ==
    /\ pc = "titles"
    /\ ti <= Len(titles)
    /\ ~LimitReached
    /\ slugify(Title) \notin have
    /\ LET s == fetch_summary(Title, LANG, SummaryOf(Title))
       IN  /\ ~s.ok
           /\ log' = log \o <<Req("summary", SummaryHost(LANG))>>
                         \o (IF s.slept THEN <<Sleep>> ELSE <<>>)
    /\ ti' = ti + 1
    /\ UNCHANGED <<upstream, file, pc, runs, runVars, memVars, ci, cont, titles, pageNo>>

\* fetch_summary returns an entry: it gets the next id and is appended.
SummaryAccepted ==
    /\ pc = "titles"
    /\ ti <= Len(titles)
    /\ ~LimitReached
    /\ slugify(Title) \notin have
    /\ LET s == fetch_summary(Title, LANG, SummaryOf(Title))
       IN  /\ s.ok
           /\ words' = AppendEntry(words, WithId(s, next_id))
           /\ accepted' = Append(accepted,
                  [title |-> Title, entry |-> WithId(s, next_id),
                   pos |-> <<ci, pageNo, ti>>])
           /\ log' = log \o <<Req("summary", SummaryHost(LANG))>>
                         \o (IF s.slept THEN <<Sleep>> ELSE <<>>)
    /\ have' = have \cup {slugify(Title)}
    /\ next_id' = next_id + 1
    /\ added' = added + 1
    /\ ti' = ti + 1
    /\ UNCHANGED <<upstream, file, pc, runs, runVars, ci, cont, titles, pageNo>>

\* SESSION.get in fetch_summary raises (connection error, retries
\* exhausted): the exception leaves main() and ends the process.
SummaryFails ==
    /\ pc = "titles"
    /\ ti <= Len(titles)
    /\ ~LimitReached
    /\ slugify(Title) \notin have
    /\ log' = log \o <<Req("summary", SummaryHost(LANG))>>
    /\ pc' = "aborted"
    /\ UNCHANGED <<upstream, file, runs, runVars, memVars, loopVars>>

\* End of the title loop with a continuation token: next page.
NextPage ==
    /\ pc = "titles"
    /\ ti > Len(titles)
    /\ cont # NoCont
    /\ pc' = "list"
    /\ UNCHANGED <<upstream, file, runs, runVars, memVars, loopVars, log>>

\* if not cont: break, and the category loop has a next category.
NextCategory ==
    /\ pc = "titles"
    /\ ti > Len(titles)
    /\ cont = NoCont
    /\ ci < Len(categories)
    /\ ci' = ci + 1
    /\ pc' = "list"
    /\ UNCHANGED <<upstream, file, runs, runVars, memVars, cont, titles, ti, pageNo, log>>

\* if not cont: break out of the last category: save_words(words); Done.
FinalSave ==
    /\ pc = "titles"
    /\ ti > Len(titles)
    /\ cont = NoCont
    /\ ci = Len(categories)
    /\ file' = save_words(words)
    /\ log' = Append(log, [ev |-> "save", kind |-> "final", host |-> ""])
    /\ pc' = "done"
    /\ UNCHANGED <<upstream, runs, runVars, memVars, loopVars>>

Next ==
    \/ StartRunNoCategories
    \/ StartRun
    \/ FetchCategoryMembers
    \/ FetchCategoryMembersFails
    \/ LimitSave
    \/ SkipDuplicate
    \/ SummaryRejected
    \/ SummaryAccepted
    \/ SummaryFails
    \/ NextPage
    \/ NextCategory
    \/ FinalSave

Spec == Init /\ [][Next]_vars

\* ============================================================ claims
File == file.content

AcceptedEntries == [k \in 1..Len(accepted) |-> accepted[k].entry]

IsRequest(e) == e.ev = "request"
IsSave(e) == e.ev = "save"
Saves == {i \in 1..Len(log) : IsSave(log[i])}

\* A run that got past the load (its locals exist).
Loading == pc \in {"list", "titles", "done", "aborted"}

\* The summary endpoint's answer makes the title a rejected one.
RejectedResponse(r) ==
    \/ r.status # 200
    \/ r.type = "disambiguation"
    \/ Strip(r.extract) = <<>>
    \/ \E i \in 1..Len(r.extract) : r.extract[i] \in bad_words

RECURSIVE Flatten(_)
Flatten(ss) == IF ss = <<>> THEN <<>> ELSE Head(ss) \o Flatten(Tail(ss))

\* The listing titles of the configured categories, in encounter order.
AllTitles ==
    Flatten([c \in 1..Len(categories) |->
        Flatten([p \in 1..Len(upstream[categories[c]]) |->
            TitlesOf(upstream[categories[c]][p])])])

RECURSIVE CountEligible(_, _)
\* How many titles of ts are eligible (not a duplicate of the slugs in hv
\* or of an earlier eligible title, and the summary is not rejected).
CountEligible(ts, hv) ==
    IF ts = <<>> THEN 0
    ELSE IF slugify(Head(ts)) \in hv THEN CountEligible(Tail(ts), hv)
    ELSE IF RejectedResponse(SummaryOf(Head(ts))) THEN CountEligible(Tail(ts), hv)
    ELSE 1 + CountEligible(Tail(ts), hv \cup {slugify(Head(ts))})

Eligible == CountEligible(AllTitles, {slugify(Loaded[i].term) : i \in 1..Len(Loaded)})

\* C1: no two entries of the persisted collection have the same
\* normalized slug of their term, after any number of runs.
C1_NoDuplicateSlugs ==
    \A i, j \in 1..Len(File) :
        i # j => slugify(File[i].term) # slugify(File[j].term)

\* C2: starting from an absent file, the ids of the persisted collection
\* of N entries are 1, ..., N in collection order (no gap, no repeat).
C2_IdsAreOneToN == \A i \in 1..Len(File) : File[i].id = i

C2_Witness ==
    /\ pc = "done"
    /\ runs = MaxRuns
    /\ Len(Loaded) >= 1
    /\ Len(File) >= Len(Loaded) + 2

\* C3: the added counter never exceeds the limit, and a completed run over
\* an upstream with more than LIMIT eligible titles has added exactly LIMIT
\* entries, saved them, and stopped at a title it has not processed.
C3_LimitEnforced ==
    /\ Loading => added <= LIMIT_PER_RUN
    /\ (pc = "done" /\ Eligible > LIMIT_PER_RUN) =>
          /\ added = LIMIT_PER_RUN
          /\ Len(File) = Len(Loaded) + LIMIT_PER_RUN
          /\ File = words
          /\ ti <= Len(titles)

C3_Witness ==
    /\ pc = "done"
    /\ LIMIT_PER_RUN = 2
    /\ Eligible > 2
    /\ Len(Loaded) >= 1
    /\ added = 2

\* C4: after the accept that makes added = LIMIT, no further outbound
\* request is issued before the run saves and ends.
C4_NoRequestAfterLimit ==
    [][(Running /\ accepted # <<>> /\ added = LIMIT_PER_RUN) =>
          \A i \in (Len(log) + 1)..Len(log') : ~IsRequest(log'[i])]_vars

\* C5: a run aborted by a transport failure leaves the persisted file as
\* the run found it, whatever it had accepted in memory.
C5_AbortWritesNothing == pc = "aborted" => file = file0

C5_Witness ==
    /\ pc = "aborted"
    /\ accepted # <<>>
    /\ log[Len(log)] = Req("list", ListingHost)
    /\ words # Loaded

\* C6: between any two outbound requests of a run there is a sleep.
C6_SleepBetweenRequests ==
    \A i, j \in 1..Len(log) :
        (i < j /\ IsRequest(log[i]) /\ IsRequest(log[j])) =>
            \E k \in (i + 1)..(j - 1) : log[k].ev = "sleep"

\* C7: every outbound request of a run goes to the host of the configured
\* language.
C7_RequestsUseLang ==
    \A i \in 1..Len(log) : IsRequest(log[i]) => log[i].host = LANG

\* C8: processing a title that is a duplicate or whose summary is rejected
\* leaves the collection, the next id and the added counter unchanged and
\* moves to the next title (a duplicate without any request); and titles
\* A, B, C with B a disambiguation page, from an absent file and a limit
\* above 2, give exactly A with id 1 and C with id 2.
IsSkip ==
    /\ pc = "titles"
    /\ ti <= Len(titles)
    /\ added < LIMIT_PER_RUN
    /\ \/ slugify(Title) \in have
       \/ RejectedResponse(SummaryOf(Title))

C8_Scenario ==
    (/\ pc = "done"
     /\ ~file0.exists
     /\ [p \in 1..Len(upstream[categories[1]]) |->
            TitlesOf(upstream[categories[1]][p])] = << <<tA, tB, tC>> >>
     /\ Len(categories) = 1
     /\ LIMIT_PER_RUN > 2)
    => /\ Len(File) = 2
       /\ File[1].id = 1 /\ File[1].term = tA
       /\ File[2].id = 2 /\ File[2].term = tC

C8_SkipChangesNothing ==
    /\ [][IsSkip =>
            /\ words' = words /\ next_id' = next_id /\ added' = added
            /\ \/ pc' = "titles" /\ ti' = ti + 1 /\ titles' = titles
               \/ pc' = "aborted" /\ slugify(Title) \notin have
            /\ slugify(Title) \in have => log' = log]_vars
    /\ []C8_Scenario

C8_Witness ==
    /\ pc = "done"
    /\ ~file0.exists
    /\ categories = <<"c1">>
    /\ upstream = ListingA
    /\ LIMIT_PER_RUN > 2
    /\ Len(File) = 2

\* Lexicographic order of listing positions <<category, page, title>>.
PosLess(a, b) ==
    \/ a[1] < b[1]
    \/ a[1] = b[1] /\ a[2] < b[2]
    \/ a[1] = b[1] /\ a[2] = b[2] /\ a[3] < b[3]

\* C9: the loaded collection is a prefix of the in-memory collection, and
\* the rest is the entries accepted in the run, in the order their titles
\* are met (categories, then pages, then titles); a save writes just that.
C9_AppendOnly ==
    Loading =>
        /\ Len(words) = Len(Loaded) + Len(accepted)
        /\ SubSeq(words, 1, Len(Loaded)) = Loaded
        /\ \A k \in 1..Len(accepted) :
              LET a == accepted[k]
                  t == TitlesOf(upstream[categories[a.pos[1]]][a.pos[2]])[a.pos[3]]
                  r == SummaryOf(t)
              IN  /\ words[Len(Loaded) + k].term =
                        (IF r.title # <<>> THEN r.title ELSE t)
                  /\ words[Len(Loaded) + k].lang = LANG
                  /\ k > 1 => PosLess(accepted[k - 1].pos, a.pos)
        /\ pc = "done" => File = words
        /\ (pc = "done" /\ file0.exists) => SubSeq(File, 1, Len(file0.content)) = file0.content

C9_Witness ==
    /\ pc = "done"
    /\ Len(Loaded) >= 1
    /\ Len(accepted) >= 2
    /\ accepted[1].pos[1] # accepted[2].pos[1]

\* C10: a run with categories that ends without a transport failure has
\* written the file exactly once, as its last action, with every entry it
\* accepted; a run without categories, an aborted run and a run still
\* under way have not written it.
C10_OneWritePerRun ==
    /\ pc = "done" =>
          /\ Saves = {Len(log)}
          /\ Len(File) = Len(Loaded) + added
          /\ \A k \in 1..Len(accepted) : File[Len(Loaded) + k] = accepted[k].entry
    /\ pc \in {"list", "titles", "aborted", "exited"} =>
          /\ Saves = {}
          /\ file = file0

C10_Witness ==
    /\ pc = "done"
    /\ log[Len(log)].kind = "limit"
    /\ added >= 1
    /\ ci < Len(categories)

====
